---- MODULE Spec2Model ----
(***************************************************************************)
(* Order execution engine: the order store with its cache-aside read path, *)
(* the BullMQ job queue keyed by order id, the processOrder state machine  *)
(* and the submission route.                                               *)
(*                                                                         *)
(* Numbers are fixed point: slippage in 1/100, base prices in 1/100,       *)
(* price variance and fees in 1/1000, the random draw of executeSwap in    *)
(* 1/10.  A request carries its amount in quarters of 1e-8; the orders     *)
(* table keeps it as DECIMAL(20,8), in units of 1e-8.  An optional field   *)
(* is <<>> when unset and <<v>> when set.                                  *)
(***************************************************************************)
EXTENDS Integers, Sequences, FiniteSets, TLC

\* ---------------------------------------------------------------- bounds
NumIds == 1
MaxConcurrency == 2
MaxAddCalls == 2
MaxFaults == 3
NumReaders == 2
MaxWrites == 2
NumSockets == 2
MaxBroadcasts == 2
MaxRows == 3
MaxUpdateRows == 2

\* ------------------------------------------------------ program constants
maxRetries == 3
RaydiumFee == 3
MeteoraFee == 2
DefaultBasePrice == 100

None == <<>>
Some(v) == <<v>>
IsSome(x) == x # <<>>
Val(x) == x[1]

\* UUID-shaped ids: create hands one out, or a caller names one that no
\* order has
AllIds == 1..NumIds

\* ids that are not UUID-shaped, such as 'non-existent-id'
MalformedIds == {0}

\* every key a caller can name
KeyIds == AllIds \cup MalformedIds

\* uuidRegex.test(id)
uuidRegexTest(id) == id \in AllIds

Statuses == {"pending", "routing", "building", "submitted", "confirmed", "failed"}

\* ------------------------------------------------------------ order store
\* amount DECIMAL(20, 8): the value a request carries (in quarters of 1e-8)
\* is rounded to eight decimals, half away from zero, and read back by
\* parseFloat in units of 1e-8
Decimal8(amount) ==
  IF amount >= 0 THEN (amount + 2) \div 4 ELSE -((2 - amount) \div 4)

\* the row inserted by OrderModel.create, as mapRow returns it; slippage
\* DECIMAL(5, 4) keeps every value of the model's 1/100 grid as it is
NewRow(id, tokenIn, tokenOut, amount, slippage, now) ==
  [id |-> id, tokenIn |-> tokenIn, tokenOut |-> tokenOut,
   amount |-> Decimal8(amount), slippage |-> slippage, status |-> "pending",
   selectedDex |-> None, raydiumQuote |-> None, meteoraQuote |-> None,
   executedPrice |-> None, amountOut |-> None, txHash |-> None,
   errorMessage |-> None, retryCount |-> 0,
   createdAt |-> now, updatedAt |-> now]

\* additionalData of updateStatus: every field optional
EmptyPatch ==
  [selectedDex |-> None, raydiumQuote |-> None, meteoraQuote |-> None,
   executedPrice |-> None, amountOut |-> None, txHash |-> None,
   errorMessage |-> None, retryCount |-> None]

\* JavaScript truthiness of an optional string field
TruthyStr(x) == IsSome(x) /\ Val(x) # ""

\* an UPDATE that sets every optional column, to NULL where the patch
\* carries nothing
UpdateRow_clearsUnset(row, status, patch) ==
  [row EXCEPT
     !.status = status,
     !.updatedAt = @ + 1,
     !.selectedDex = patch.selectedDex,
     !.raydiumQuote = patch.raydiumQuote,
     !.meteoraQuote = patch.meteoraQuote,
     !.executedPrice = patch.executedPrice,
     !.amountOut = patch.amountOut,
     !.txHash = patch.txHash,
     !.errorMessage = patch.errorMessage,
     !.retryCount = IF IsSome(patch.retryCount) THEN Val(patch.retryCount) ELSE 0]

\* the UPDATE statement built by updateStatus, applied to one row:
\* status and updated_at always, every other column only when the patch
\* carries it (truthy for the strings, !== undefined for the numbers)
UpdateRow(row, status, patch) ==
  [row EXCEPT
     !.status = status,
     !.updatedAt = @ + 1,
     !.selectedDex = IF TruthyStr(patch.selectedDex) THEN patch.selectedDex ELSE @,
     !.raydiumQuote = IF IsSome(patch.raydiumQuote) THEN patch.raydiumQuote ELSE @,
     !.meteoraQuote = IF IsSome(patch.meteoraQuote) THEN patch.meteoraQuote ELSE @,
     !.executedPrice = IF IsSome(patch.executedPrice) THEN patch.executedPrice ELSE @,
     !.amountOut = IF IsSome(patch.amountOut) THEN patch.amountOut ELSE @,
     !.txHash = IF TruthyStr(patch.txHash) THEN patch.txHash ELSE @,
     !.errorMessage = IF TruthyStr(patch.errorMessage) THEN patch.errorMessage ELSE @,
     !.retryCount = IF IsSome(patch.retryCount) THEN Val(patch.retryCount) ELSE @]

\* UPDATE orders SET ... WHERE id = $1: no row, no change
DbUpdate(d, id, status, patch) ==
  IF IsSome(d[id]) THEN [d EXCEPT ![id] = Some(UpdateRow(Val(@), status, patch))] ELSE d

\* redis.del(`order:${id}`)
CacheDel(c, id) == [c EXCEPT ![id] = None]

\* redis.setex(`order:${id}`, 3600, JSON.stringify(order))
CacheSet(c, id, order) == [c EXCEPT ![id] = Some(order)]

\* ------------------------------------------------------------- dex router
\* basePrices[`${tokenIn}-${tokenOut}`] || 1.0, in 1/100
getBasePrice(tokenIn, tokenOut) ==
  CASE tokenIn = "SOL" /\ tokenOut = "USDC" -> 10000
    [] tokenIn = "SOL" /\ tokenOut = "USDT" -> 10000
    [] tokenIn = "USDC" /\ tokenOut = "SOL" -> 1
    [] tokenIn = "USDT" /\ tokenOut = "SOL" -> 1
    [] tokenIn = "SOL" /\ tokenOut = "RAY" -> 2000
    [] tokenIn = "RAY" /\ tokenOut = "SOL" -> 5
    [] OTHER -> DefaultBasePrice

\* getRaydiumQuote with the variance drawn by applyPriceVariance
getRaydiumQuote(tokenIn, tokenOut, amount, variance) ==
  LET price == getBasePrice(tokenIn, tokenOut) * variance
  IN [dex |-> "raydium", price |-> price, fee |-> RaydiumFee,
      estimatedOutput |-> amount * price * (1000 - RaydiumFee)]

\* getMeteorQuote with the variance drawn by applyPriceVariance
getMeteorQuote(tokenIn, tokenOut, amount, variance) ==
  LET price == getBasePrice(tokenIn, tokenOut) * variance
  IN [dex |-> "meteora", price |-> price, fee |-> MeteoraFee,
      estimatedOutput |-> amount * price * (1000 - MeteoraFee)]

Min(a, b) == IF a < b THEN a ELSE b

\* x / y >= 0 for IEEE doubles: 0 / 0 is NaN, which compares false
RatioGE0(num, den) ==
  IF den = 0 THEN num > 0 ELSE (num >= 0 /\ den > 0) \/ (num <= 0 /\ den < 0)

\* x / y = 0 for IEEE doubles
RatioIsZero(num, den) == den # 0 /\ num = 0

\* a getBestQuote that selects the quote with the smaller output
getBestQuote_picksWorse(raydiumQuote, meteoraQuote) ==
  LET bestQuote == IF raydiumQuote.estimatedOutput < meteoraQuote.estimatedOutput
                   THEN raydiumQuote ELSE meteoraQuote
      worseOutput == Min(raydiumQuote.estimatedOutput, meteoraQuote.estimatedOutput)
  IN [raydiumQuote |-> raydiumQuote, meteoraQuote |-> meteoraQuote,
      bestQuote |-> bestQuote,
      priceImprovementNum |-> (bestQuote.estimatedOutput - worseOutput) * 100,
      priceImprovementDen |-> worseOutput]

\* getBestQuote from the two resolved quotes; priceImprovement is kept as
\* the numerator (best - worse) * 100 over the denominator worse
getBestQuote(raydiumQuote, meteoraQuote) ==
  LET bestQuote == IF raydiumQuote.estimatedOutput > meteoraQuote.estimatedOutput
                   THEN raydiumQuote ELSE meteoraQuote
      worseOutput == Min(raydiumQuote.estimatedOutput, meteoraQuote.estimatedOutput)
  IN [raydiumQuote |-> raydiumQuote, meteoraQuote |-> meteoraQuote,
      bestQuote |-> bestQuote,
      priceImprovementNum |-> (bestQuote.estimatedOutput - worseOutput) * 100,
      priceImprovementDen |-> worseOutput]

\* executeSwap with the random draw rnd (in 1/10) and the generated hash
executeSwap(order, selectedDex, rnd, hash) ==
  LET basePrice == getBasePrice(order.tokenIn, order.tokenOut)
      slippageVariance == 1000 - rnd * order.slippage
      executedPrice == basePrice * slippageVariance
      fee == IF selectedDex = "raydium" THEN RaydiumFee ELSE MeteoraFee
  IN [txHash |-> hash, executedPrice |-> executedPrice,
      amountIn |-> order.amount,
      amountOut |-> order.amount * executedPrice * (1000 - fee),
      dex |-> selectedDex]

\* ------------------------------------------------------------------ state
VARIABLES
  db,            \* durable orders table: id -> <<>> or <<row>>
  cache,         \* redis order:<id> entries: id -> <<>> or <<snapshot>>
  hist,          \* per id, every status value the orders table has held
  jobs,          \* the BullMQ queue 'orders': sequence of jobs
  running,       \* processOrder invocations in flight
  starts,        \* per id, how often processOrder was started
  addCalls,      \* per id, how often addOrderToQueue was called and resolved
  bcast,         \* per id, the updates handed to broadcastStatus
  swaps,         \* per id, how many executeSwap calls resolved
  faults,        \* storage and cache calls that have thrown so far
  rd,            \* OrderModel.getById calls of request handlers, step by step
  wr,            \* an OrderModel.updateStatus call, step by step
  committed,     \* per id, updated_at written by the last updateStatus that returned
  incrOnActive,  \* BullMQ counts attemptsMade on activation (<= v4) or on finish (v5)
  reply,         \* what executeOrder sent to its latest caller
  dex,           \* a call into the dex router: its arguments, draws and results
  connections,   \* websocket-manager's Map: order id -> Set of sockets
  sockets,       \* every WebSocket: readyState, 'close' listeners, what its peer received
  subs,          \* subscribeToOrder invocations, one per socket, step by step
  metrics,       \* what getQueueMetrics returned to its latest caller
  recent         \* what getRecent returned to its latest caller

wsVars == <<connections, sockets, subs>>
obsVars == <<metrics, recent>>
queueVars == <<jobs, running, starts, addCalls, bcast, swaps, incrOnActive, reply, dex,
               wsVars, obsVars>>
engineVars == <<queueVars, faults>>
vars == <<db, cache, hist, jobs, running, starts, addCalls, bcast, swaps, faults,
          incrOnActive, rd, wr, committed, reply, dex, connections, sockets, subs,
          metrics, recent>>

\* --------------------------------------------------------------- requests
Bodies ==
  { [tokenIn |-> "TEST_INT", tokenOut |-> "USDC", amount |-> 4, slippage |-> 1],
    [tokenIn |-> "USDC", tokenOut |-> "SOL", amount |-> 8, slippage |-> 100],
    [tokenIn |-> "TEST_INT", tokenOut |-> "USDC", amount |-> 1, slippage |-> 1],
    [tokenIn |-> "SOL", tokenOut |-> "SOL", amount |-> 4, slippage |-> 1],
    [tokenIn |-> "", tokenOut |-> "USDC", amount |-> 4, slippage |-> 1],
    [tokenIn |-> "TEST_INT", tokenOut |-> "USDC", amount |-> 0, slippage |-> 1],
    [tokenIn |-> "TEST_INT", tokenOut |-> "USDC", amount |-> 4, slippage |-> 101],
    [tokenIn |-> "TEST_INT", tokenOut |-> "USDC", amount |-> 4, slippage |-> -1] }

\* a validation that forgets to compare the two tokens
validateOrderRequest_sameTokenAllowed(body) ==
  IF body.tokenIn = ""
  THEN [valid |-> FALSE, error |-> "tokenIn is required and must be a string"]
  ELSE IF body.tokenOut = ""
  THEN [valid |-> FALSE, error |-> "tokenOut is required and must be a string"]
  ELSE IF body.amount = 0 \/ body.amount <= 0
  THEN [valid |-> FALSE, error |-> "amount is required and must be a positive number"]
  ELSE IF body.slippage < 0 \/ body.slippage > 100
  THEN [valid |-> FALSE, error |-> "slippage is required and must be between 0 and 1"]
  ELSE [valid |-> TRUE, error |-> ""]

\* validateOrderRequest: the first failing test decides the message;
\* slippage is accepted on the closed interval [0, 1]
validateOrderRequest(body) ==
  IF body.tokenIn = ""
  THEN [valid |-> FALSE, error |-> "tokenIn is required and must be a string"]
  ELSE IF body.tokenOut = ""
  THEN [valid |-> FALSE, error |-> "tokenOut is required and must be a string"]
  ELSE IF body.amount = 0 \/ body.amount <= 0
  THEN [valid |-> FALSE, error |-> "amount is required and must be a positive number"]
  ELSE IF body.slippage < 0 \/ body.slippage > 100
  THEN [valid |-> FALSE, error |-> "slippage is required and must be between 0 and 1"]
  ELSE IF body.tokenIn = body.tokenOut
  THEN [valid |-> FALSE, error |-> "tokenIn and tokenOut must be different"]
  ELSE [valid |-> TRUE, error |-> ""]

\* the requests that pass validation
StoreBodies == {b \in Bodies : validateOrderRequest(b).valid}

\* outcomes of one call into storage: it returns, it throws before its
\* durable statement took effect, or it throws in the cache call after it
Outcomes == {"ok", "pre", "post"}

\* ------------------------------------------------------------- the queue
\* a queue.add that ignores the jobId option: BullMQ generates a fresh id
QueueAdd_freshId(q, orderId, jobId) ==
  Append(q, [id |-> IF \E i \in 1..Len(q) : q[i].id = jobId THEN -Len(q) ELSE jobId,
             orderId |-> orderId, state |-> "waiting", attemptsMade |-> 0])

\* orderQueue.add(name, {orderId}, {jobId}): a job id that the queue
\* already holds is not added again
QueueAdd(q, orderId, jobId) ==
  IF \E i \in 1..Len(q) : q[i].id = jobId
  THEN q
  ELSE Append(q, [id |-> jobId, orderId |-> orderId, state |-> "waiting",
                  attemptsMade |-> 0])

\* a worker that takes a job without marking it active
MoveToActive_staysWaiting(job) ==
  [job EXCEPT !.attemptsMade = IF incrOnActive THEN @ + 1 ELSE @]

\* the worker takes a waiting job
MoveToActive(job) ==
  [job EXCEPT !.state = "active",
              !.attemptsMade = IF incrOnActive THEN @ + 1 ELSE @]

\* a retry rule that is off by one
ShouldRetry_offByOne(job) ==
  IF incrOnActive THEN job.attemptsMade <= maxRetries
                  ELSE job.attemptsMade + 1 <= maxRetries

\* defaultJobOptions.attempts = config.queue.maxRetries
ShouldRetry(job) ==
  IF incrOnActive THEN job.attemptsMade < maxRetries
                  ELSE job.attemptsMade + 1 < maxRetries

\* the processor rejected: back off and retry, or fail for good
MoveToFailed(job) ==
  [job EXCEPT !.state = IF ShouldRetry(job) THEN "delayed" ELSE "failed",
              !.attemptsMade = IF incrOnActive THEN @ ELSE @ + 1]

\* the processor resolved
MoveToCompleted(job) ==
  [job EXCEPT !.state = "completed",
              !.attemptsMade = IF incrOnActive THEN @ ELSE @ + 1]

\* ------------------------------------------------------ websocket manager
\* the sockets clients have opened; undefined stands for a missing socket
Sockets == 1..NumSockets
undefined == 0

\* a WebSocket the server has accepted: open, nothing sent to it, no
\* 'close' listener; sendThrows tells whether ws.send raises on it
NewSocket == [readyState |-> "OPEN", listeners |-> {}, inbox |-> <<>>, sendThrows |-> FALSE]

\* new Map(), and Map's has, set and delete
EmptyMap == [k \in {} |-> {}]
MapHas(m, k) == k \in DOMAIN m
MapSet(m, k, v) == [x \in DOMAIN m \cup {k} |-> IF x = k THEN v ELSE m[x]]
MapDelete(m, k) == [x \in DOMAIN m \ {k} |-> m[x]]

\* a 'close' handler that leaves the emptied set in the map
onClose_keepsEmpty(conns, orderId, ws) ==
  IF MapHas(conns, orderId)
  THEN MapSet(conns, orderId, conns[orderId] \ {ws})
  ELSE conns

\* the 'close' handler that registerConnection attaches for orderId, run
\* for socket ws: the socket leaves the order's set, an empty set leaves
\* the map
onClose(conns, orderId, ws) ==
  IF MapHas(conns, orderId)
  THEN IF conns[orderId] \ {ws} = {}
       THEN MapDelete(conns, orderId)
       ELSE MapSet(conns, orderId, conns[orderId] \ {ws})
  ELSE conns

\* every 'close' handler of ws, one order id after the other
RECURSIVE emitClose(_, _, _)
emitClose(conns, ids, ws) ==
  IF ids = {} THEN conns
  ELSE LET orderId == CHOOSE i \in ids : TRUE
       IN emitClose(onClose(conns, orderId, ws), ids \ {orderId}, ws)

\* ws.send(message) on one socket: the peer gets the message when the
\* socket is open and send does not raise
wsSend(sock, message) ==
  IF sock.readyState = "OPEN" /\ ~sock.sendThrows
  THEN [sock EXCEPT !.inbox = Append(@, message)] ELSE sock

\* a broadcast that forgets to look the order up and serves every socket
deliver_everySocket(socks, conns, update) ==
  [w \in DOMAIN socks |-> wsSend(socks[w], update)]

\* a broadcast without the try/catch around send: one send that raises
\* ends the loop, here before any other socket was served
deliver_stopAtThrow(socks, conns, update) ==
  IF ~MapHas(conns, update.orderId) \/ conns[update.orderId] = {}
  THEN socks
  ELSE IF \E w \in conns[update.orderId] :
            socks[w].readyState = "OPEN" /\ socks[w].sendThrows
       THEN socks
       ELSE [w \in DOMAIN socks |->
               IF w \in conns[update.orderId] THEN wsSend(socks[w], update)
               ELSE socks[w]]

\* broadcastStatus, lines 44-63: the update goes to every socket in the
\* order's set that is open; a send that raises is caught and logged
deliver(socks, conns, update) ==
  IF ~MapHas(conns, update.orderId) \/ conns[update.orderId] = {}
  THEN socks
  ELSE [w \in DOMAIN socks |->
          IF w \in conns[update.orderId] THEN wsSend(socks[w], update)
          ELSE socks[w]]

\* no subscribeToOrder call has been made for the socket
NoSubscribe == [pc |-> "idle", orderId |-> 0, order |-> None]

\* getRecent has not been called
NoRecent == [limit |-> 0, threw |-> FALSE, rows |-> <<>>]

\* no getQueueMetrics call is under way and none has returned
NoMetrics ==
  [pc |-> "idle", waiting |-> 0, active |-> 0, completed |-> 0, failed |-> 0,
   result |-> None]

\* ------------------------------------------------------------------ Init
\* no call into the dex router is being followed
DexIdle ==
  [pc |-> "idle", order |-> [tokenIn |-> "", tokenOut |-> "", amount |-> 0, slippage |-> 0],
   quote |-> None, swap |-> None]

\* the state after start-up, with ids as the ids that can come up
InitWith(ids) ==
  /\ db = [id \in ids |-> None]
  /\ cache = [id \in ids \cup MalformedIds |-> None]
  /\ hist = [id \in ids |-> <<>>]
  /\ jobs = <<>>
  /\ running = {}
  /\ starts = [id \in ids |-> 0]
  /\ addCalls = [id \in ids |-> 0]
  /\ bcast = [id \in ids \cup MalformedIds |-> <<>>]
  /\ swaps = [id \in ids |-> 0]
  /\ faults = 0
  /\ rd = [p \in 1..NumReaders |-> [pc |-> "idle", id |-> 1, val |-> None, floor |-> 0]]
  /\ wr = [pc |-> "idle", id |-> 1, status |-> "pending", result |-> "none"]
  /\ committed = [id \in ids |-> 0]
  /\ incrOnActive \in BOOLEAN
  /\ reply = [code |-> 0, message |-> ""]
  /\ connections = EmptyMap
  /\ sockets = [w \in Sockets |-> NewSocket]
  /\ subs = [w \in Sockets |-> NoSubscribe]
  /\ metrics = NoMetrics
  /\ recent = NoRecent

InitEngine == InitWith(AllIds)

Init == InitEngine /\ dex = DexIdle

\* ---------------------------------------------------------------- helpers
concurrency == MaxConcurrency

\* draws of Math.random: price variances inside each venue's range, and
\* the slippage draw of executeSwap
RaydiumVariances == {998, 1039}
MeteoraVariances == {997, 1049}
SwapDraws == {0, 9}

\* generateMockTxHash: a fresh hash per call
TxHash(id, n) == "tx" \o ToString(id) \o "-" \o ToString(n)

\* what processOrder reads from the fetched order
OrderDetails(o) ==
  [tokenIn |-> o.tokenIn, tokenOut |-> o.tokenOut, amount |-> o.amount,
   slippage |-> o.slippage]

NoOrder == [tokenIn |-> "", tokenOut |-> "", amount |-> 0, slippage |-> 0]

\* a processOrder that forgets the broadcast after the submitted write
broadcastStatus_skipSubmitted(log, id, status, willRetry) ==
  IF status = "submitted" THEN log
  ELSE [log EXCEPT ![id] = Append(@, [status |-> status, willRetry |-> willRetry])]

\* broadcastStatus as processOrder calls it: one update for the order
broadcastStatus(log, id, status, willRetry) ==
  [log EXCEPT ![id] = Append(@, [status |-> status, willRetry |-> willRetry])]

\* the update processOrder builds for a status; n numbers the order's
\* updates as their timestamps do
StatusEvent(id, status) ==
  [kind |-> "event", orderId |-> id, status |-> status, n |-> Len(bcast[id]) + 1]

\* processOrder calls broadcastStatus({orderId, status, timestamp, data})
Notify(id, status, willRetry) ==
  /\ bcast' = broadcastStatus(bcast, id, status, willRetry)
  /\ sockets' = deliver(sockets, connections, StatusEvent(id, status))

\* OrderModel.updateStatus run to its end or to its throw
UpdateStatus(id, status, patch, oc) ==
  /\ db' = IF oc = "pre" THEN db ELSE DbUpdate(db, id, status, patch)
  /\ cache' = IF oc = "ok" THEN CacheDel(cache, id) ELSE cache
  /\ hist' = IF oc # "pre" /\ IsSome(db[id])
             THEN [hist EXCEPT ![id] = Append(@, Val(db'[id]).status)] ELSE hist

Step(r, pc) == (running \ {r}) \cup {[r EXCEPT !.pc = pc]}
Fail(r, msg) == (running \ {r}) \cup {[r EXCEPT !.pc = "catch", !.err = msg]}

\* a storage call that throws uses up one of the faults the run may see
Throws(oc) ==
  IF oc = "ok" THEN UNCHANGED faults
  ELSE faults < MaxFaults /\ faults' = faults + 1

\* ids create can still hand out: a random UUID is never one that a caller
\* has already named
FreeIds ==
  {i \in DOMAIN db :
     /\ db[i] = None
     /\ addCalls[i] = 0
     /\ \A p \in 1..NumReaders : rd[p].pc = "idle" \/ rd[p].id # i
     /\ wr.pc = "idle" \/ wr.id # i
     /\ \A w \in Sockets : subs[w].pc = "idle" \/ subs[w].orderId # i
     /\ \A w \in Sockets : i \notin sockets[w].listeners
     /\ bcast[i] = <<>>}
NextId == CHOOSE i \in FreeIds : \A j \in FreeIds : i <= j
RowCount == Cardinality({i \in DOMAIN db : IsSome(db[i])})

\* the rows of the orders table
Rows(d) == {Val(d[i]) : i \in {j \in DOMAIN d : IsSome(d[j])}}

\* created_at DEFAULT NOW(): the clock has moved on since the newest row
\* was inserted, or it still shows the same instant
Nows ==
  IF Rows(db) = {} THEN {1}
  ELSE LET newest == CHOOSE t \in {row.createdAt : row \in Rows(db)} :
                       \A row \in Rows(db) : row.createdAt <= t
       IN {newest, newest + 1}

\* --------------------------------------------------------------- actions
\* POST /api/orders/execute: validate, OrderModel.create, addOrderToQueue,
\* and the reply.  oc = "pre": create throws before the INSERT; "post": the
\* INSERT is done and the cache write of create throws; "add": the queue
\* add throws.
executeOrder(body, oc) ==
  LET validation == validateOrderRequest(body)
  IN IF ~validation.valid
     THEN /\ oc = "ok"
          /\ reply' = [code |-> 400, message |-> validation.error]
          /\ UNCHANGED <<db, cache, hist, jobs, running, starts, addCalls, bcast,
                         swaps, faults, incrOnActive, rd, wr, committed, dex, wsVars, obsVars>>
     ELSE /\ FreeIds # {}
          /\ Throws(oc)
          /\ LET id == NextId
                 row == NewRow(id, body.tokenIn, body.tokenOut, body.amount,
                               body.slippage, RowCount + 1)
             IN /\ db' = IF oc = "pre" THEN db ELSE [db EXCEPT ![id] = Some(row)]
                /\ hist' = IF oc = "pre" THEN hist
                           ELSE [hist EXCEPT ![id] = <<"pending">>]
                /\ cache' = IF oc \in {"ok", "add"} THEN CacheSet(cache, id, row)
                            ELSE cache
                /\ jobs' = IF oc = "ok" THEN QueueAdd(jobs, id, id) ELSE jobs
                /\ addCalls' = IF oc = "ok" THEN [addCalls EXCEPT ![id] = @ + 1]
                               ELSE addCalls
          /\ reply' = IF oc = "ok"
                      THEN [code |-> 201, message |-> "Order created successfully"]
                      ELSE [code |-> 500, message |-> "Failed to create order"]
          /\ UNCHANGED <<running, starts, bcast, swaps, incrOnActive, rd, wr,
                         committed, dex, wsVars, obsVars>>

\* addOrderToQueue called on its own, for a known order or an unknown id
addOrderToQueue(id, oc) ==
  /\ addCalls[id] < MaxAddCalls
  /\ Throws(oc)
  /\ jobs' = IF oc = "ok" THEN QueueAdd(jobs, id, id) ELSE jobs
  /\ addCalls' = IF oc = "ok" THEN [addCalls EXCEPT ![id] = @ + 1] ELSE addCalls
  /\ UNCHANGED <<db, cache, hist, running, starts, bcast, swaps, incrOnActive, rd, wr, committed, reply, dex, wsVars, obsVars>>

\* the worker takes a waiting job and starts processOrder on it
Pickup(i) ==
  /\ jobs[i].state = "waiting"
  /\ Cardinality(running) < concurrency
  /\ jobs' = [jobs EXCEPT ![i] = MoveToActive(@)]
  /\ running' = running \cup
       {[job |-> i, orderId |-> jobs[i].orderId, pc |-> "fetch",
         order |-> NoOrder, dex |-> "", err |-> ""]}
  /\ starts' = [starts EXCEPT ![jobs[i].orderId] = @ + 1]
  /\ UNCHANGED <<db, cache, hist, addCalls, bcast, swaps, faults, incrOnActive, rd, wr, committed, reply, dex, wsVars, obsVars>>

\* the backoff delay of a failed attempt ran out
Promote(i) ==
  /\ jobs[i].state = "delayed"
  /\ jobs' = [jobs EXCEPT ![i].state = "waiting"]
  /\ UNCHANGED <<db, cache, hist, running, starts, addCalls, bcast, swaps, faults, incrOnActive, rd, wr, committed, reply, dex, wsVars, obsVars>>

\* processOrder, lines 36-39: getById, cache first, then the table
ProcessFetch(r, oc) ==
  /\ r.pc = "fetch"
  /\ Throws(oc)
  /\ LET id == r.orderId
         hit == IsSome(cache[id])
         found == IF hit THEN cache[id] ELSE db[id]
     IN IF oc = "pre"
        THEN /\ running' = Fail(r, "storage failure")
             /\ UNCHANGED cache
        ELSE IF found = None
        THEN /\ running' = Fail(r, "Order not found")
             /\ UNCHANGED cache
        ELSE /\ running' = (running \ {r}) \cup
                  {[r EXCEPT !.pc = "routing", !.order = OrderDetails(Val(found))]}
             /\ cache' = IF hit THEN cache ELSE CacheSet(cache, id, Val(found))
  /\ UNCHANGED <<db, hist, jobs, starts, addCalls, bcast, swaps, incrOnActive, rd, wr, committed, reply, dex, wsVars, obsVars>>

\* processOrder, lines 42-48
ProcessRouting(r, oc) ==
  /\ r.pc = "routing"
  /\ Throws(oc)
  /\ UpdateStatus(r.orderId, "routing", EmptyPatch, oc)
  /\ IF oc = "ok"
     THEN /\ Notify(r.orderId, "routing", FALSE)
          /\ running' = Step(r, "building")
     ELSE /\ running' = Fail(r, "storage failure")
          /\ UNCHANGED <<bcast, sockets>>
  /\ UNCHANGED <<jobs, starts, addCalls, swaps, incrOnActive, rd, wr, committed, reply, dex,
                 connections, subs, obsVars>>

\* processOrder, lines 51-73: both quotes, the better one, the building write
ProcessBuilding(r, vr, vm, oc) ==
  /\ r.pc = "building"
  /\ Throws(oc)
  /\ LET q == getBestQuote(
                getRaydiumQuote(r.order.tokenIn, r.order.tokenOut, r.order.amount, vr),
                getMeteorQuote(r.order.tokenIn, r.order.tokenOut, r.order.amount, vm))
         patch == [EmptyPatch EXCEPT !.selectedDex = Some(q.bestQuote.dex),
                                     !.raydiumQuote = Some(q.raydiumQuote),
                                     !.meteoraQuote = Some(q.meteoraQuote)]
     IN /\ UpdateStatus(r.orderId, "building", patch, oc)
        /\ IF oc = "ok"
           THEN /\ Notify(r.orderId, "building", FALSE)
                /\ running' = (running \ {r}) \cup
                     {[r EXCEPT !.pc = "submitted", !.dex = q.bestQuote.dex]}
           ELSE /\ running' = Fail(r, "storage failure")
                /\ UNCHANGED <<bcast, sockets>>
  /\ UNCHANGED <<jobs, starts, addCalls, swaps, incrOnActive, rd, wr, committed, reply, dex,
                 connections, subs, obsVars>>

\* processOrder, lines 76-85
ProcessSubmitted(r, oc) ==
  /\ r.pc = "submitted"
  /\ Throws(oc)
  /\ UpdateStatus(r.orderId, "submitted", EmptyPatch, oc)
  /\ IF oc = "ok"
     THEN /\ Notify(r.orderId, "submitted", FALSE)
          /\ running' = Step(r, "confirmed")
     ELSE /\ running' = Fail(r, "storage failure")
          /\ UNCHANGED <<bcast, sockets>>
  /\ UNCHANGED <<jobs, starts, addCalls, swaps, incrOnActive, rd, wr, committed, reply, dex,
                 connections, subs, obsVars>>

\* processOrder, lines 88-118: the swap, the confirmed write, the job ends
ProcessConfirmed(r, rnd, oc) ==
  /\ r.pc = "confirmed"
  /\ Throws(oc)
  /\ LET id == r.orderId
         swapResult == executeSwap(r.order, r.dex, rnd, TxHash(id, swaps[id] + 1))
         patch == [EmptyPatch EXCEPT !.executedPrice = Some(swapResult.executedPrice),
                                     !.amountOut = Some(swapResult.amountOut),
                                     !.txHash = Some(swapResult.txHash)]
     IN /\ swaps' = [swaps EXCEPT ![id] = @ + 1]
        /\ UpdateStatus(id, "confirmed", patch, oc)
        /\ IF oc = "ok"
           THEN /\ Notify(id, "confirmed", FALSE)
                /\ running' = running \ {r}
                /\ jobs' = [jobs EXCEPT ![r.job] = MoveToCompleted(@)]
           ELSE /\ running' = Fail(r, "storage failure")
                /\ UNCHANGED <<bcast, sockets, jobs>>
  /\ UNCHANGED <<starts, addCalls, incrOnActive, rd, wr, committed, reply, dex,
                 connections, subs, obsVars>>

\* processOrder, lines 119-141: the failed write, the failed event, the
\* rethrow that hands the job back to the queue's retry policy
ProcessCatch(r, oc) ==
  /\ r.pc = "catch"
  /\ Throws(oc)
  /\ LET id == r.orderId
         attemptsMade == jobs[r.job].attemptsMade
         patch == [EmptyPatch EXCEPT !.errorMessage = Some(r.err),
                                     !.retryCount = Some(attemptsMade)]
     IN /\ UpdateStatus(id, "failed", patch, oc)
        /\ IF oc = "ok"
           THEN Notify(id, "failed", attemptsMade < maxRetries)
           ELSE UNCHANGED <<bcast, sockets>>
  /\ running' = running \ {r}
  /\ jobs' = [jobs EXCEPT ![r.job] = MoveToFailed(@)]
  /\ UNCHANGED <<starts, addCalls, swaps, incrOnActive, rd, wr, committed, reply, dex,
                 connections, subs, obsVars>>

Next ==
  \/ \E body \in StoreBodies, oc \in {"ok", "pre", "post", "add"} : executeOrder(body, oc)
  \/ \E id \in AllIds, oc \in {"ok", "pre"} : addOrderToQueue(id, oc)
  \/ \E i \in 1..Len(jobs) : Pickup(i)
  \/ \E i \in 1..Len(jobs) : Promote(i)
  \/ \E r \in running, oc \in {"ok", "pre"} : ProcessFetch(r, oc)
  \/ \E r \in running, oc \in Outcomes : ProcessRouting(r, oc)
  \/ \E r \in running, vr \in RaydiumVariances, vm \in MeteoraVariances, oc \in Outcomes :
       ProcessBuilding(r, vr, vm, oc)
  \/ \E r \in running, oc \in Outcomes : ProcessSubmitted(r, oc)
  \/ \E r \in running, rnd \in SwapDraws, oc \in Outcomes : ProcessConfirmed(r, rnd, oc)
  \/ \E r \in running, oc \in Outcomes : ProcessCatch(r, oc)

Spec == Init /\ [][Next]_vars

\* ------------------------------------------- the order store, step by step
\* OrderModel.create called on its own, as the store's tests do; it checks
\* nothing and caches the new row
create(body) ==
  /\ FreeIds # {}
  /\ \E now \in Nows :
       LET id == NextId
           row == NewRow(id, body.tokenIn, body.tokenOut, body.amount,
                         body.slippage, now)
       IN /\ db' = [db EXCEPT ![id] = Some(row)]
          /\ hist' = [hist EXCEPT ![id] = <<"pending">>]
          /\ cache' = CacheSet(cache, id, row)
  /\ UNCHANGED <<engineVars, rd, wr, committed>>

\* a handler calls getById(id); floor remembers the newest write that had
\* returned by then
getByIdCall(p, id) ==
  /\ rd[p].pc = "idle"
  /\ rd' = [rd EXCEPT ![p] = [pc |-> "get", id |-> id, val |-> None,
                              floor |-> IF id \in AllIds THEN committed[id] ELSE 0]]
  /\ UNCHANGED <<db, cache, hist, engineVars, wr, committed>>

\* getById, lines 63-72: the cache lookup, which may reject, and the test
\* of the id's shape
getByIdCache(p, oc) ==
  /\ rd[p].pc = "get"
  /\ Throws(oc)
  /\ rd' = [rd EXCEPT ![p] =
              IF oc = "pre" THEN [@ EXCEPT !.pc = "threwCache"]
              ELSE IF IsSome(cache[@.id])
              THEN [@ EXCEPT !.pc = "done", !.val = cache[rd[p].id]]
              ELSE IF ~uuidRegexTest(@.id) THEN [@ EXCEPT !.pc = "done", !.val = None]
              ELSE [@ EXCEPT !.pc = "query"]]
  /\ UNCHANGED <<db, cache, hist, queueVars, wr, committed>>

\* getById, lines 75-80: the SELECT; the UUID column rejects any other text
getByIdQuery(p) ==
  /\ rd[p].pc = "query"
  /\ rd' = [rd EXCEPT ![p] =
              IF @.id \notin AllIds THEN [@ EXCEPT !.pc = "threwDb"]
              ELSE IF db[@.id] = None THEN [@ EXCEPT !.pc = "done", !.val = None]
              ELSE [@ EXCEPT !.pc = "setex", !.val = db[rd[p].id]]]
  /\ UNCHANGED <<db, cache, hist, engineVars, wr, committed>>

\* getById, lines 83-85: the cache is filled with what the SELECT returned,
\* unless redis.setex rejects
getByIdSetex(p, oc) ==
  /\ rd[p].pc = "setex"
  /\ Throws(oc)
  /\ cache' = IF oc = "pre" THEN cache ELSE CacheSet(cache, rd[p].id, Val(rd[p].val))
  /\ rd' = [rd EXCEPT ![p].pc = IF oc = "pre" THEN "threwCache" ELSE "done"]
  /\ UNCHANGED <<db, hist, queueVars, wr, committed>>

\* the handler has its answer, or its exception
getByIdReturn(p) ==
  /\ rd[p].pc \in {"done", "threwCache", "threwDb"}
  /\ rd' = [rd EXCEPT ![p] = [pc |-> "idle", id |-> @.id, val |-> None, floor |-> 0]]
  /\ UNCHANGED <<db, cache, hist, engineVars, wr, committed>>

\* updateStatus(id, status) is called
updateStatusCall(id, status) ==
  /\ wr.pc = "idle"
  /\ IsSome(db[id]) => Val(db[id]).updatedAt <= MaxWrites
  /\ wr' = [pc |-> "query", id |-> id, status |-> status, result |-> "none"]
  /\ UNCHANGED <<db, cache, hist, engineVars, rd, committed>>

\* updateStatus, lines 143-146: the UPDATE; it matches no row when the id
\* has none, and that is no error
updateStatusQuery ==
  /\ wr.pc = "query"
  /\ db' = DbUpdate(db, wr.id, wr.status, EmptyPatch)
  /\ hist' = IF IsSome(db[wr.id])
             THEN [hist EXCEPT ![wr.id] = Append(@, Val(db'[wr.id]).status)] ELSE hist
  /\ wr' = [wr EXCEPT !.pc = "del"]
  /\ UNCHANGED <<cache, engineVars, rd, committed>>

\* an updateStatus that refreshes the cached entry instead of deleting it
updateStatusDel_writeThrough ==
  /\ wr.pc = "del"
  /\ cache' = IF IsSome(db[wr.id]) THEN CacheSet(cache, wr.id, Val(db[wr.id]))
              ELSE CacheDel(cache, wr.id)
  /\ wr' = [wr EXCEPT !.pc = "ret"]
  /\ UNCHANGED <<db, hist, engineVars, rd, committed>>

\* updateStatus, line 149: redis runs the DEL; its reply is on the way
updateStatusDel ==
  /\ wr.pc = "del"
  /\ cache' = CacheDel(cache, wr.id)
  /\ wr' = [wr EXCEPT !.pc = "ret"]
  /\ UNCHANGED <<db, hist, engineVars, rd, committed>>

\* updateStatus, lines 149-153: the reply arrives and the call resolves
updateStatusReturn ==
  /\ wr.pc = "ret"
  /\ committed' = IF IsSome(db[wr.id])
                  THEN [committed EXCEPT ![wr.id] = Val(db[wr.id]).updatedAt]
                  ELSE committed
  /\ wr' = [wr EXCEPT !.pc = "idle", !.result = "success"]
  /\ UNCHANGED <<db, cache, hist, engineVars, rd>>

NextStore ==
  \/ \E body \in Bodies : create(body)
  \/ \E p \in 1..NumReaders, id \in KeyIds : getByIdCall(p, id)
  \/ \E p \in 1..NumReaders, oc \in {"ok", "pre"} : getByIdCache(p, oc)
  \/ \E p \in 1..NumReaders : getByIdQuery(p)
  \/ \E p \in 1..NumReaders, oc \in {"ok", "pre"} : getByIdSetex(p, oc)
  \/ \E p \in 1..NumReaders : getByIdReturn(p)
  \/ \E id \in AllIds, status \in {"routing", "building"} : updateStatusCall(id, status)
  \/ updateStatusQuery
  \/ updateStatusDel
  \/ updateStatusReturn

SpecStore == Init /\ [][NextStore]_vars

\* ------------------------------------------------ the request handlers
\* POST /api/orders/execute with any body, next to the reads of GET
\* /api/orders/:orderId
NextApi ==
  \/ \E body \in Bodies, oc \in {"ok", "pre", "post", "add"} : executeOrder(body, oc)
  \/ \E p \in 1..NumReaders, id \in KeyIds : getByIdCall(p, id)
  \/ \E p \in 1..NumReaders, oc \in {"ok", "pre"} : getByIdCache(p, oc)
  \/ \E p \in 1..NumReaders : getByIdQuery(p)
  \/ \E p \in 1..NumReaders, oc \in {"ok", "pre"} : getByIdSetex(p, oc)
  \/ \E p \in 1..NumReaders : getByIdReturn(p)

SpecApi == Init /\ [][NextApi]_vars

\* ------------------------------------------------------ the dex router
\* what processOrder hands to the router: the details of an order that a
\* validated request has created
DexOrders ==
  {OrderDetails(NewRow(1, b.tokenIn, b.tokenOut, b.amount, b.slippage, 1)) :
     b \in StoreBodies}

\* draws of applyPriceVariance, every second value of the 1/1000 grid
\* inside each venue's range (998 against 997 makes the two outputs equal),
\* and of Math.random in executeSwap on the 1/10 grid
RaydiumRange == {980 + 2 * k : k \in 0..29}
MeteoraRange == {971 + 2 * k : k \in 0..39}
SwapRange == 0..9

InitDex ==
  /\ InitEngine
  /\ dex \in {[DexIdle EXCEPT !.pc = "quote", !.order = o] : o \in DexOrders}

\* getBestQuote(tokenIn, tokenOut, amount) resolves
DexGetBestQuote(vr, vm) ==
  /\ dex.pc = "quote"
  /\ dex' = [dex EXCEPT
       !.pc = "swap",
       !.quote = Some(getBestQuote(
                   getRaydiumQuote(dex.order.tokenIn, dex.order.tokenOut, dex.order.amount, vr),
                   getMeteorQuote(dex.order.tokenIn, dex.order.tokenOut, dex.order.amount, vm)))]
  /\ UNCHANGED <<db, cache, hist, jobs, running, starts, addCalls, bcast, swaps,
                 faults, incrOnActive, rd, wr, committed, reply, wsVars, obsVars>>

\* executeSwap(order, bestQuote.dex) resolves
DexExecuteSwap(rnd) ==
  /\ dex.pc = "swap"
  /\ dex' = [dex EXCEPT
       !.pc = "done",
       !.swap = Some(executeSwap(dex.order, Val(dex.quote).bestQuote.dex, rnd,
                                 TxHash(1, 1)))]
  /\ UNCHANGED <<db, cache, hist, jobs, running, starts, addCalls, bcast, swaps,
                 faults, incrOnActive, rd, wr, committed, reply, wsVars, obsVars>>

NextDex ==
  \/ \E vr \in RaydiumRange, vm \in MeteoraRange : DexGetBestQuote(vr, vm)
  \/ \E rnd \in SwapRange : DexExecuteSwap(rnd)

SpecDex == InitDex /\ [][NextDex]_vars

\* -------------------------------------------------- the websocket manager
\* everything but the registry, the sockets and the log of broadcasts
restVars == <<db, cache, hist, jobs, running, starts, addCalls, swaps, faults,
              incrOnActive, rd, wr, committed, reply, dex, obsVars>>

\* a registration that replays the order's earlier updates to the socket
registerConnection_replay(orderId, ws) ==
  /\ IF ws = undefined
     THEN UNCHANGED <<connections, sockets>>
     ELSE /\ connections' = MapSet(connections, orderId,
                 (IF MapHas(connections, orderId) THEN connections[orderId] ELSE {}) \cup {ws})
          /\ sockets' = [sockets EXCEPT
                ![ws].listeners = @ \cup {orderId},
                ![ws].inbox = @ \o [i \in 1..Len(bcast[orderId]) |->
                                     [kind |-> "event", orderId |-> orderId,
                                      status |-> bcast[orderId][i].status, n |-> i]]]
  /\ UNCHANGED <<bcast, subs, db, cache, hist, jobs, running, starts, addCalls, swaps,
                 faults, incrOnActive, rd, wr, committed, reply, dex, metrics, recent>>

\* connections.get(orderId) with ws added, the set created when missing
withSocket(conns, orderId, ws) ==
  MapSet(conns, orderId, (IF MapHas(conns, orderId) THEN conns[orderId] ELSE {}) \cup {ws})

\* registerConnection(orderId, ws), lines 16-39: a missing socket is only
\* logged; otherwise the socket joins the order's set and gets a 'close'
\* listener for that order
registerConnection(orderId, ws) ==
  /\ IF ws = undefined
     THEN UNCHANGED <<connections, sockets>>
     ELSE /\ connections' = withSocket(connections, orderId, ws)
          /\ sockets' = [sockets EXCEPT ![ws].listeners = @ \cup {orderId}]
  /\ UNCHANGED <<bcast, subs, restVars>>

\* how many updates broadcastStatus has been handed
BroadcastCount == Cardinality(UNION {{<<k, i>> : i \in 1..Len(bcast[k])} : k \in KeyIds})

\* any caller hands an update to broadcastStatus
broadcast(orderId, status) ==
  /\ BroadcastCount < MaxBroadcasts
  /\ Notify(orderId, status, FALSE)
  /\ UNCHANGED <<connections, subs, restVars>>

\* closeConnections(orderId), lines 68-81: close() on every open socket
\* of the order, then the order's entry leaves the map
closeConnections(orderId) ==
  /\ IF MapHas(connections, orderId)
     THEN /\ sockets' = [w \in Sockets |->
                          IF w \in connections[orderId] /\ sockets[w].readyState = "OPEN"
                          THEN [sockets[w] EXCEPT !.readyState = "CLOSING"]
                          ELSE sockets[w]]
          /\ connections' = MapDelete(connections, orderId)
     ELSE UNCHANGED <<connections, sockets>>
  /\ UNCHANGED <<bcast, subs, restVars>>

\* the closing handshake of a socket starts: its peer sent a close frame,
\* or close() was called on it
PeerClosing(w) ==
  /\ sockets[w].readyState = "OPEN"
  /\ sockets' = [sockets EXCEPT ![w].readyState = "CLOSING"]
  /\ UNCHANGED <<connections, bcast, subs, restVars>>

\* the socket is closed, after a handshake or because the connection
\* dropped: 'close' is emitted and every listener of the socket runs
SocketClosed(w) ==
  /\ sockets[w].readyState \in {"OPEN", "CLOSING"}
  /\ sockets' = [sockets EXCEPT ![w].readyState = "CLOSED"]
  /\ connections' = emitClose(connections, sockets[w].listeners, w)
  /\ UNCHANGED <<bcast, subs, restVars>>

\* ws.send on the socket starts or stops raising
SocketFault(w) ==
  /\ sockets[w].readyState = "OPEN"
  /\ sockets' = [sockets EXCEPT ![w].sendThrows = ~@]
  /\ UNCHANGED <<connections, bcast, subs, restVars>>

NextWs ==
  \/ \E orderId \in KeyIds, ws \in Sockets \cup {undefined} : registerConnection(orderId, ws)
  \/ \E orderId \in KeyIds : broadcast(orderId, "routing")
  \/ \E orderId \in KeyIds : closeConnections(orderId)
  \/ \E w \in Sockets : PeerClosing(w)
  \/ \E w \in Sockets : SocketClosed(w)
  \/ \E w \in Sockets : SocketFault(w)

SpecWs == Init /\ [][NextWs]_vars

\* ------------------------------------------ subscribers next to the worker
\* socket.close() as a handler calls it
wsClose(sock) ==
  IF sock.readyState = "OPEN" THEN [sock EXCEPT !.readyState = "CLOSING"] ELSE sock

\* what subscribeToOrder sends first: the order as getById returned it
Snapshot(order) ==
  [kind |-> "snapshot", orderId |-> order.id, status |-> order.status, n |-> 0]

\* {error: 'Order not found', orderId}
NotFoundMessage(orderId) ==
  [kind |-> "error", orderId |-> orderId, status |-> "", n |-> 0]

\* subscribeToOrder, lines 88-104: the handler awaits getById(orderId),
\* cache first, then the table; when getById rejects the catch closes the
\* socket
subscribeToOrder(w, orderId, oc) ==
  /\ subs[w].pc = "idle"
  /\ Throws(oc)
  /\ LET hit == IsSome(cache[orderId])
         found == IF hit THEN cache[orderId]
                  ELSE IF uuidRegexTest(orderId) THEN db[orderId] ELSE None
     IN IF oc = "pre"
        THEN /\ subs' = [subs EXCEPT ![w] = [pc |-> "done", orderId |-> orderId,
                                             order |-> None]]
             /\ sockets' = [sockets EXCEPT ![w] = wsClose(@)]
             /\ UNCHANGED cache
        ELSE /\ subs' = [subs EXCEPT ![w] = [pc |-> "got", orderId |-> orderId,
                                             order |-> found]]
             /\ cache' = IF hit \/ found = None THEN cache
                         ELSE CacheSet(cache, orderId, Val(found))
             /\ UNCHANGED sockets
  /\ UNCHANGED <<db, hist, jobs, running, starts, addCalls, bcast, swaps, incrOnActive,
                 rd, wr, committed, reply, dex, connections, obsVars>>

\* a subscribeToOrder that registers the socket before it looks at what
\* getById returned
SubscribeRegister_registersFirst(w) ==
  /\ subs[w].pc = "got"
  /\ LET orderId == subs[w].orderId
         raises == sockets[w].readyState = "OPEN" /\ sockets[w].sendThrows
         sock == [sockets[w] EXCEPT !.listeners = @ \cup {orderId}]
     IN /\ connections' = withSocket(connections, orderId, w)
        /\ sockets' = [sockets EXCEPT ![w] =
              IF subs[w].order = None THEN wsClose(wsSend(sock, NotFoundMessage(orderId)))
              ELSE IF raises THEN wsClose(sock)
              ELSE wsSend(sock, Snapshot(Val(subs[w].order)))]
  /\ subs' = [subs EXCEPT ![w].pc = "done", ![w].order = None]
  /\ UNCHANGED <<bcast, restVars>>

\* subscribeToOrder, lines 106-137, once getById has resolved: no order,
\* an error message and close(); an order, registerConnection and the
\* snapshot; a send that raises lands in the catch, which closes the socket
SubscribeRegister(w) ==
  /\ subs[w].pc = "got"
  /\ LET orderId == subs[w].orderId
         raises == sockets[w].readyState = "OPEN" /\ sockets[w].sendThrows
     IN IF subs[w].order = None
        THEN /\ sockets' = [sockets EXCEPT ![w] = wsClose(wsSend(@, NotFoundMessage(orderId)))]
             /\ UNCHANGED connections
        ELSE /\ connections' = withSocket(connections, orderId, w)
             /\ sockets' = [sockets EXCEPT ![w] =
                   LET sock == [@ EXCEPT !.listeners = @ \cup {orderId}]
                   IN IF raises THEN wsClose(sock)
                      ELSE wsSend(sock, Snapshot(Val(subs[w].order)))]
  /\ subs' = [subs EXCEPT ![w].pc = "done", ![w].order = None]
  /\ UNCHANGED <<bcast, restVars>>

\* one order is submitted and worked on while clients subscribe; the first
\* status write of an attempt is the one that may fail, and the draws are
\* those that make either venue the better one
SubBodies == {b \in StoreBodies : b.tokenIn = "TEST_INT" /\ b.amount = 4}

NextSub ==
  \/ \E body \in SubBodies : executeOrder(body, "ok")
  \/ \E i \in 1..Len(jobs) : Pickup(i)
  \/ \E i \in 1..Len(jobs) : Promote(i)
  \/ \E r \in running : ProcessFetch(r, "ok")
  \/ \E r \in running, oc \in {"ok", "pre"} : ProcessRouting(r, oc)
  \/ \E r \in running, vr \in RaydiumVariances : ProcessBuilding(r, vr, 997, "ok")
  \/ \E r \in running : ProcessSubmitted(r, "ok")
  \/ \E r \in running : ProcessConfirmed(r, 0, "ok")
  \/ \E r \in running : ProcessCatch(r, "ok")
  \/ \E w \in Sockets, orderId \in KeyIds, oc \in {"ok", "pre"} : subscribeToOrder(w, orderId, oc)
  \/ \E w \in Sockets : SubscribeRegister(w)
  \/ \E w \in Sockets : SocketFault(w)

SpecSub == Init /\ [][NextSub]_vars

\* clients subscribe to an order id that has no row while a job for that
\* id is worked on and fails, its failed events being broadcast
NextAbsent ==
  \/ \E id \in AllIds : addOrderToQueue(id, "ok")
  \/ \E i \in 1..Len(jobs) : Pickup(i)
  \/ \E i \in 1..Len(jobs) : Promote(i)
  \/ \E r \in running : ProcessFetch(r, "ok")
  \/ \E r \in running : ProcessCatch(r, "ok")
  \/ \E w \in Sockets, orderId \in KeyIds, oc \in {"ok", "pre"} : subscribeToOrder(w, orderId, oc)
  \/ \E w \in Sockets : SubscribeRegister(w)
  \/ \E w \in Sockets : PeerClosing(w)
  \/ \E w \in Sockets : SocketClosed(w)
  \/ \E w \in Sockets : SocketFault(w)

SpecAbsent == Init /\ [][NextAbsent]_vars

\* one order is submitted and processed without any failure while clients
\* subscribe to it: every interleaving of subscribeToOrder with processOrder
NextWatch ==
  \/ \E body \in SubBodies : executeOrder(body, "ok")
  \/ \E i \in 1..Len(jobs) : Pickup(i)
  \/ \E r \in running : ProcessFetch(r, "ok")
  \/ \E r \in running : ProcessRouting(r, "ok")
  \/ \E r \in running, vr \in RaydiumVariances : ProcessBuilding(r, vr, 997, "ok")
  \/ \E r \in running : ProcessSubmitted(r, "ok")
  \/ \E r \in running : ProcessConfirmed(r, 0, "ok")
  \/ \E w \in Sockets, orderId \in AllIds : subscribeToOrder(w, orderId, "ok")
  \/ \E w \in Sockets : SubscribeRegister(w)

SpecWatch == Init /\ [][NextWatch]_vars

\* ------------------------------------------------------- recent orders
\* a table of several orders
RecentIds == 1..MaxRows

\* the limits a caller passes; PostgreSQL rejects a negative one
Limits == -1..MaxRows

\* ORDER BY created_at DESC: rows of equal created_at in any order
OrderedDesc(seq) ==
  \A i, j \in 1..Len(seq) : i < j => seq[i].createdAt >= seq[j].createdAt

\* a query that sorts the oldest order first
getRecentResults_ascending(d, limit) ==
  LET n == Cardinality(Rows(d))
      sorted == {seq \in [1..n -> Rows(d)] :
                   /\ \A i, j \in 1..n : i # j => seq[i] # seq[j]
                   /\ \A i, j \in 1..n : i < j => seq[i].createdAt <= seq[j].createdAt}
  IN {SubSeq(seq, 1, Min(limit, n)) : seq \in sorted}

\* SELECT * FROM orders ORDER BY created_at DESC LIMIT $1: every row once,
\* sorted, and of that the first limit rows
getRecentResults(d, limit) ==
  LET n == Cardinality(Rows(d))
      sorted == {seq \in [1..n -> Rows(d)] :
                   /\ \A i, j \in 1..n : i # j => seq[i] # seq[j]
                   /\ OrderedDesc(seq)}
  IN {SubSeq(seq, 1, Min(limit, n)) : seq \in sorted}

\* OrderModel.getRecent(limit), lines 158-164
getRecent(limit) ==
  /\ IF limit < 0
     THEN recent' = [limit |-> limit, threw |-> TRUE, rows |-> <<>>]
     ELSE \E result \in getRecentResults(db, limit) :
            recent' = [limit |-> limit, threw |-> FALSE, rows |-> result]
  /\ UNCHANGED <<db, cache, hist, jobs, running, starts, addCalls, bcast, swaps, faults,
                 incrOnActive, rd, wr, committed, reply, dex, wsVars, metrics>>

InitRecent == InitWith(RecentIds) /\ dex = DexIdle

NextRecent ==
  \/ \E body \in StoreBodies : create(body)
  \/ \E limit \in Limits : getRecent(limit)

SpecRecent == InitRecent /\ [][NextRecent]_vars

\* ------------------------------------------------------- queue metrics
\* getWaitingCount, getActiveCount, getCompletedCount, getFailedCount:
\* the jobs the queue holds in one state
JobCount(q, state) == Cardinality({i \in 1..Len(q) : q[i].state = state})

\* a total that leaves the failed jobs out
Total_withoutFailed(waiting, active, completed, failed) ==
  waiting + active + completed

\* getQueueMetrics, line 202
Total(waiting, active, completed, failed) ==
  waiting + active + completed + failed

\* everything but the metrics call
notMetrics == <<db, cache, hist, jobs, running, starts, addCalls, bcast, swaps, faults,
                incrOnActive, rd, wr, committed, reply, dex, wsVars, recent>>

\* getQueueMetrics is called: the four counts are requested, in this order
getQueueMetricsCall ==
  /\ metrics.pc = "idle"
  /\ metrics' = [NoMetrics EXCEPT !.pc = "waiting"]
  /\ UNCHANGED notMetrics

\* the queue answers the next count; the worker may have moved jobs since
\* the count before
getCount ==
  /\ metrics.pc \in {"waiting", "active", "completed", "failed"}
  /\ metrics' =
       CASE metrics.pc = "waiting" ->
              [metrics EXCEPT !.waiting = JobCount(jobs, "waiting"), !.pc = "active"]
         [] metrics.pc = "active" ->
              [metrics EXCEPT !.active = JobCount(jobs, "active"), !.pc = "completed"]
         [] metrics.pc = "completed" ->
              [metrics EXCEPT !.completed = JobCount(jobs, "completed"), !.pc = "failed"]
         [] metrics.pc = "failed" ->
              [metrics EXCEPT !.failed = JobCount(jobs, "failed"), !.pc = "return"]
  /\ UNCHANGED notMetrics

\* getQueueMetrics, lines 197-203: the four counts and their total
getQueueMetricsReturn ==
  /\ metrics.pc = "return"
  /\ metrics' = [NoMetrics EXCEPT !.result =
       Some([waiting |-> metrics.waiting, active |-> metrics.active,
             completed |-> metrics.completed, failed |-> metrics.failed,
             total |-> Total(metrics.waiting, metrics.active,
                             metrics.completed, metrics.failed)])]
  /\ UNCHANGED notMetrics

\* the queue at work, for an order and for an id that no order has, while
\* the metrics are read
NextQueue ==
  \/ \E body \in SubBodies : executeOrder(body, "ok")
  \/ \E id \in AllIds : addOrderToQueue(id, "ok")
  \/ \E i \in 1..Len(jobs) : Pickup(i)
  \/ \E i \in 1..Len(jobs) : Promote(i)
  \/ \E r \in running : ProcessFetch(r, "ok")
  \/ \E r \in running, oc \in {"ok", "pre"} : ProcessRouting(r, oc)
  \/ \E r \in running, vr \in RaydiumVariances : ProcessBuilding(r, vr, 997, "ok")
  \/ \E r \in running : ProcessSubmitted(r, "ok")
  \/ \E r \in running : ProcessConfirmed(r, 0, "ok")
  \/ \E r \in running : ProcessCatch(r, "ok")
  \/ getQueueMetricsCall
  \/ getCount
  \/ getQueueMetricsReturn

SpecQueue == Init /\ [][NextQueue]_vars

\* ----------------------------------------- updateStatus over several rows
\* the additionalData the callers of updateStatus pass, one without any
\* field and one whose string field is empty
UpdatePatches ==
  { EmptyPatch,
    [EmptyPatch EXCEPT !.errorMessage = Some("storage failure"), !.retryCount = Some(1)],
    [EmptyPatch EXCEPT !.executedPrice = Some(99900), !.amountOut = Some(7),
                       !.txHash = Some("tx1-1")],
    [EmptyPatch EXCEPT !.errorMessage = Some(""), !.retryCount = Some(0)] }

UpdateStatuses == {"routing", "confirmed", "failed"}

UpdateIds == 1..MaxUpdateRows

InitUpdate == InitWith(UpdateIds) /\ dex = DexIdle

\* the UPDATE statements that have run so far, over all rows
UpdateCount ==
  LET RECURSIVE sum(_)
      sum(S) == IF S = {} THEN 0
                ELSE LET i == CHOOSE j \in S : TRUE
                     IN (IF hist[i] = <<>> THEN 0 ELSE Len(hist[i]) - 1) + sum(S \ {i})
  IN sum(DOMAIN hist)

\* OrderModel.updateStatus as one step: the UPDATE and the cache delete
updateStatus(id, status, patch, oc) ==
  /\ UpdateCount < MaxWrites
  /\ Throws(oc)
  /\ UpdateStatus(id, status, patch, oc)
  /\ UNCHANGED <<queueVars, rd, wr, committed>>

NextUpdate ==
  \/ \E body \in SubBodies : create(body)
  \/ \E id \in UpdateIds, status \in UpdateStatuses, patch \in UpdatePatches,
        oc \in {"ok", "pre", "post"} : updateStatus(id, status, patch, oc)

SpecUpdate == InitUpdate /\ [][NextUpdate]_vars

\* ------------------------------------------ getBestQuote, step by step
\* getBestQuote has been called for an order and has started nothing yet
QuoteCall(o) ==
  [pc |-> "call", order |-> o, started |-> {}, raydiumQuote |-> None,
   meteoraQuote |-> None, quote |-> None, swap |-> None]

InitQuotes ==
  /\ InitEngine
  /\ dex \in {QuoteCall(o) : o \in DexOrders}

\* a getBestQuote that goes on with the first quote that resolves, as
\* Promise.race would
allResolved_first(d) == IsSome(d.raydiumQuote) \/ IsSome(d.meteoraQuote)

\* Promise.all([...]) resolves once every promise of the array has
allResolved(d) == IsSome(d.raydiumQuote) /\ IsSome(d.meteoraQuote)

\* everything but the call into the dex router
notDex == <<db, cache, hist, jobs, running, starts, addCalls, bcast, swaps, faults,
            incrOnActive, rd, wr, committed, reply, wsVars, obsVars>>

\* getBestQuote, lines 103-106: the array literal calls getRaydiumQuote
\* and getMeteorQuote one after the other; each runs to its sleep
getBestQuoteCall ==
  /\ dex.pc = "call"
  /\ dex' = [dex EXCEPT !.pc = "await", !.started = {"raydium", "meteora"}]
  /\ UNCHANGED notDex

\* getRaydiumQuote's sleep is over and its quote resolves
getRaydiumQuoteResolves(vr) ==
  /\ dex.pc = "await" /\ "raydium" \in dex.started /\ dex.raydiumQuote = None
  /\ dex' = [dex EXCEPT !.raydiumQuote =
       Some(getRaydiumQuote(dex.order.tokenIn, dex.order.tokenOut, dex.order.amount, vr))]
  /\ UNCHANGED notDex

\* getMeteorQuote's sleep is over and its quote resolves
getMeteorQuoteResolves(vm) ==
  /\ dex.pc = "await" /\ "meteora" \in dex.started /\ dex.meteoraQuote = None
  /\ dex' = [dex EXCEPT !.meteoraQuote =
       Some(getMeteorQuote(dex.order.tokenIn, dex.order.tokenOut, dex.order.amount, vm))]
  /\ UNCHANGED notDex

\* getBestQuote, lines 108-127: the await is over and the result is built
\* from the quotes at hand; one that is missing counts as no output
getBestQuoteReturn ==
  /\ dex.pc = "await" /\ allResolved(dex)
  /\ LET missing(venue) == [dex |-> venue, price |-> 0, fee |-> 0, estimatedOutput |-> 0]
         rq == IF IsSome(dex.raydiumQuote) THEN Val(dex.raydiumQuote) ELSE missing("raydium")
         mq == IF IsSome(dex.meteoraQuote) THEN Val(dex.meteoraQuote) ELSE missing("meteora")
     IN dex' = [dex EXCEPT !.pc = "done", !.quote = Some(getBestQuote(rq, mq))]
  /\ UNCHANGED notDex

NextQuotes ==
  \/ getBestQuoteCall
  \/ \E vr \in RaydiumRange : getRaydiumQuoteResolves(vr)
  \/ \E vm \in MeteoraRange : getMeteorQuoteResolves(vm)
  \/ getBestQuoteReturn

SpecQuotes == InitQuotes /\ [][NextQuotes]_vars

\* ================================================================ claims
JobsOf(id) == {i \in 1..Len(jobs) : jobs[i].orderId = id}
StatusOf(id) == Val(db[id]).status
BroadcastStatuses(id) == [i \in 1..Len(bcast[id]) |-> bcast[id][i].status]
Last4(seq) == IF Len(seq) < 4 THEN seq ELSE SubSeq(seq, Len(seq) - 3, Len(seq))
SuccessPath == <<"routing", "building", "submitted", "confirmed">>

\* attempts of a job that have been started, whichever way BullMQ counts
AttemptsStarted(job) ==
  IF incrOnActive THEN job.attemptsMade
  ELSE job.attemptsMade + (IF job.state = "active" THEN 1 ELSE 0)

\* C1: an order that has a job ends with exactly one terminal outcome: when
\* the queue is done with the job the persisted status is confirmed (job
\* completed) or failed (retries used up), never pending, routing, building
\* or submitted, and a status that was confirmed is never failed afterwards.
C1_OneTerminalOutcome ==
  \A id \in AllIds :
    IsSome(db[id]) =>
      /\ \A i \in JobsOf(id) :
           /\ jobs[i].state = "completed" => StatusOf(id) = "confirmed"
           /\ jobs[i].state = "failed" => StatusOf(id) = "failed"
      /\ ~ \E i, j \in 1..Len(hist[id]) :
             i < j /\ hist[id][i] = "confirmed" /\ hist[id][j] = "failed"

AllowedEdges ==
  { <<"pending", "routing">>, <<"routing", "building">>,
    <<"building", "submitted">>, <<"submitted", "confirmed">>,
    <<"routing", "failed">>, <<"building", "failed">>,
    <<"submitted", "failed">>, <<"failed", "routing">> }

\* C3: every change of an order's persisted status is an allowed edge of
\* the state machine, also after a storage or cache call has thrown.
C3_AllowedEdges ==
  [][\A id \in AllIds :
       (IsSome(db[id]) /\ IsSome(db'[id])
          /\ Val(db[id]).status # Val(db'[id]).status)
       => <<Val(db[id]).status, Val(db'[id]).status>> \in AllowedEdges]_vars

\* C4: once the persisted status is confirmed, no step changes status,
\* executedPrice, amountOut, txHash or selectedDex of that order.
C4_ConfirmedFrozen ==
  [][\A id \in AllIds :
       (IsSome(db[id]) /\ Val(db[id]).status = "confirmed")
       => /\ Val(db'[id]).status = "confirmed"
          /\ Val(db'[id]).executedPrice = Val(db[id]).executedPrice
          /\ Val(db'[id]).amountOut = Val(db[id]).amountOut
          /\ Val(db'[id]).txHash = Val(db[id]).txHash
          /\ Val(db'[id]).selectedDex = Val(db[id]).selectedDex]_vars

\* C5: the persisted retryCount never exceeds maxRetries, and processOrder
\* is started at most maxRetries times for one order id.
C5_RetryBound ==
  \A id \in AllIds :
    /\ starts[id] <= maxRetries
    /\ IsSome(db[id]) => Val(db[id]).retryCount <= maxRetries

C5_Witness ==
  \E id \in AllIds :
    /\ IsSome(db[id])
    /\ starts[id] = maxRetries
    /\ Val(db[id]).retryCount = maxRetries

\* C6: when maxRetries attempts of an order have failed, its persisted
\* status is failed, its persisted retryCount equals maxRetries, and no
\* processOrder runs for it any more.
C6_ExhaustedRetries ==
  \A i \in 1..Len(jobs) :
    LET id == jobs[i].orderId
    IN (jobs[i].state = "failed" /\ IsSome(db[id])) =>
         /\ StatusOf(id) = "failed"
         /\ Val(db[id]).retryCount = maxRetries
         /\ starts[id] = maxRetries
         /\ ~ \E r \in running : r.orderId = id

\* C7: a job whose order is absent from the store is aborted without any
\* effect: nothing is written or cached, no failed event is broadcast, and
\* the queue does not start processOrder for it a second time.
C7_AbsentOrderAborts ==
  \A id \in AllIds :
    db[id] = None =>
      /\ cache[id] = None
      /\ hist[id] = <<>>
      /\ ~ \E k \in 1..Len(bcast[id]) : bcast[id][k].status = "failed"
      /\ starts[id] <= 1

C9_OneWorkerPerOrder ==
  /\ \A r1, r2 \in running : r1.orderId = r2.orderId => r1 = r2
  /\ Cardinality(running) <= concurrency

C9_Witness ==
  \E r \in running :
    /\ r.pc = "submitted"
    /\ starts[r.orderId] >= 2
    /\ addCalls[r.orderId] = 2

\* C10: a getById that starts after an updateStatus of the same id has
\* returned yields that write or a later one, never an older snapshot.
C10_NoStaleReadAfterWrite ==
  \A p \in 1..NumReaders :
    (rd[p].pc = "done" /\ IsSome(rd[p].val))
    => Val(rd[p].val).updatedAt >= rd[p].floor

\* C11: when updateStatus(id, ...) returns, the cache holds no entry for
\* id, unless a getById has already filled it again from the written row;
\* and an entry for an order that has been written appears again only when
\* a getById fills it.
C11_CacheAbsentAfterUpdate ==
  [][/\ (wr.pc = "ret" /\ wr'.pc = "idle")
          => (cache'[wr.id] = None \/ cache'[wr.id] = db'[wr.id])
     /\ \A id \in AllIds :
          (hist[id] # <<>> /\ cache[id] = None /\ cache'[id] # None)
          => \E p \in 1..NumReaders :
               rd[p].id = id /\ rd[p].pc = "setex" /\ rd'[p].pc = "done"]_vars

\* C12: updateStatus on an id without a durable record reports
\* NotFoundError and changes neither the orders table nor the cache.
C12_UpdateAbsentNotFound ==
  [][(wr.pc # "idle" /\ wr' # wr /\ db[wr.id] = None)
     => /\ db' = db
        /\ cache' = cache
        /\ wr'.pc = "idle" => wr'.result = "NotFoundError"]_vars

\* C13: a getById on an id that has no order ends by returning absent, not
\* by raising; for a malformed id it never gets to the SELECT or to the
\* cache write, and the cache holds nothing under a malformed id.
C13_AbsentIdReturnsAbsent ==
  /\ \A m \in MalformedIds : cache[m] = None
  /\ \A p \in 1..NumReaders :
       LET id == rd[p].id
       IN /\ id \in MalformedIds => rd[p].pc \in {"idle", "get", "done"}
          /\ (id \in MalformedIds \/ db[id] = None) =>
               /\ rd[p].pc \notin {"threwCache", "threwDb"}
               /\ rd[p].pc = "done" => rd[p].val = None

\* C14: a getById of an existing order never fails its caller because the
\* cache read or the cache write failed; it returns the stored record.
C14_CacheFailureFallsBack ==
  \A p \in 1..NumReaders :
    (rd[p].id \in AllIds /\ IsSome(db[rd[p].id])) => rd[p].pc # "threwCache"

\* what the store is to enforce on an order
OrderInvariant(o) ==
  /\ o.tokenIn # o.tokenOut
  /\ o.amount > 0
  /\ 0 <= o.slippage /\ o.slippage < 100

\* C15: OrderModel.create inserts no record that breaks the order
\* invariants (tokenIn # tokenOut, amount > 0, slippage in [0,1)), and the
\* record it inserts is pending with retryCount 0.
C15_CreateEnforcesInvariants ==
  \A id \in AllIds :
    (IsSome(db[id]) /\ hist[id] = <<"pending">>) =>
      /\ OrderInvariant(Val(db[id]))
      /\ Val(db[id]).status = "pending"
      /\ Val(db[id]).retryCount = 0

\* C16: a submission whose tokenIn equals its tokenOut is answered with a
\* 400 and leaves the orders table, the cache and the queue as they were.
C16_SameTokenRejected ==
  [][\A body \in Bodies :
       (body.tokenIn = body.tokenOut
          /\ \E oc \in {"ok", "pre", "post", "add"} : executeOrder(body, oc))
       => /\ reply'.code = 400
          /\ UNCHANGED <<db, cache, jobs, addCalls>>]_vars

C16_Witness ==
  /\ reply = [code |-> 400, message |-> "tokenIn and tokenOut must be different"]
  /\ \A id \in AllIds : db[id] = None /\ cache[id] = None
  /\ jobs = <<>>

\* C17: every persisted order has amount > 0 and slippage in [0,1).
C17_PersistedAmountAndSlippage ==
  \A id \in AllIds :
    IsSome(db[id]) =>
      /\ Val(db[id]).amount > 0
      /\ 0 <= Val(db[id]).slippage /\ Val(db[id]).slippage < 100

Max(a, b) == IF a > b THEN a ELSE b

\* C18: every result of getBestQuote has bestQuote.estimatedOutput >= the
\* smaller of the two outputs and priceImprovement >= 0.
C18_BestAtLeastMin ==
  IsSome(dex.quote) =>
    LET q == Val(dex.quote)
    IN /\ q.bestQuote.estimatedOutput >=
            Min(q.raydiumQuote.estimatedOutput, q.meteoraQuote.estimatedOutput)
       /\ RatioGE0(q.priceImprovementNum, q.priceImprovementDen)

\* C19: getBestQuote selects the quote with the strictly greater output,
\* so the best output is the maximum; on equal outputs it selects one fixed
\* venue and priceImprovement is 0.
C19_StrictlyGreaterOrFixedVenue ==
  IsSome(dex.quote) =>
    LET q == Val(dex.quote)
        r == q.raydiumQuote
        m == q.meteoraQuote
    IN /\ q.bestQuote.estimatedOutput = Max(r.estimatedOutput, m.estimatedOutput)
       /\ r.estimatedOutput > m.estimatedOutput => q.bestQuote = r
       /\ m.estimatedOutput > r.estimatedOutput => q.bestQuote = m
       /\ r.estimatedOutput = m.estimatedOutput =>
            /\ q.bestQuote = m
            /\ RatioIsZero(q.priceImprovementNum, q.priceImprovementDen)

\* C20: for slippage s in [0,1) and base price b, every executeSwap result
\* has b * (1 - s) <= executedPrice <= b, amountOut = amount * executedPrice
\* * (1 - fee of the selected venue), and amountOut > 0.
C20_SwapWithinSlippage ==
  (IsSome(dex.swap) /\ 0 <= dex.order.slippage /\ dex.order.slippage < 100) =>
    LET sw == Val(dex.swap)
        b == getBasePrice(dex.order.tokenIn, dex.order.tokenOut)
        fee == IF sw.dex = "raydium" THEN RaydiumFee ELSE MeteoraFee
    IN /\ b * (1000 - 10 * dex.order.slippage) <= sw.executedPrice
       /\ sw.executedPrice <= b * 1000
       /\ sw.amountOut = dex.order.amount * sw.executedPrice * (1000 - fee)
       /\ sw.amountOut > 0

\* the sockets in the order's set, none when the map has no such key
Registered(k) == IF MapHas(connections, k) THEN connections[k] ELSE {}

\* the update that was handed to broadcastStatus in this step for order k
Handed(k) == StatusEvent(k, bcast'[k][Len(bcast'[k])].status)

\* socket w has received update number n of order k
HasEvent(w, k, n) ==
  \E i \in 1..Len(sockets[w].inbox) :
    LET m == sockets[w].inbox[i] IN m.kind = "event" /\ m.orderId = k /\ m.n = n

\* C21: broadcastStatus(update) delivers the update exactly once to every
\* channel that is registered for update.orderId and open at the time of
\* the call (and whose send does not fail), and to no other channel, so to
\* none that is registered only for a different order id.
C21_DeliveredOnceToRegisteredOpen ==
  [][\A k \in KeyIds :
       bcast'[k] # bcast[k] =>
         \A w \in Sockets :
           sockets'[w].inbox =
             IF w \in Registered(k) /\ sockets[w].readyState = "OPEN"
                /\ ~sockets[w].sendThrows
             THEN Append(sockets[w].inbox, Handed(k))
             ELSE sockets[w].inbox]_vars

\* an update of one order reached the socket registered for it and not the
\* open socket registered for the other order only
C21_Witness ==
  \E k \in KeyIds, w, v \in Sockets :
    /\ HasEvent(w, k, 1)
    /\ v \notin Registered(k) /\ sockets[v].readyState = "OPEN" /\ ~sockets[v].sendThrows
    /\ \E j \in KeyIds \ {k} : v \in Registered(j)
    /\ sockets[v].inbox = <<>>

\* C22: if delivery to one channel fails during broadcastStatus, every
\* other open channel registered for the same order still receives the
\* update, and the processOrder step that called broadcastStatus goes on as
\* it does without the failure: no invocation lands in its catch block.
C22_DeliveryFailureIsolated ==
  [][\A k \in AllIds :
       (/\ bcast'[k] # bcast[k]
        /\ \E w \in Registered(k) :
             sockets[w].readyState = "OPEN" /\ sockets[w].sendThrows) =>
         /\ \A v \in Registered(k) :
              (sockets[v].readyState = "OPEN" /\ ~sockets[v].sendThrows) =>
                sockets'[v].inbox = Append(sockets[v].inbox, Handed(k))
         /\ \A r \in running' \ running : r.pc # "catch"]_vars

\* two sockets got one update of the order, then the send of one raised:
\* the next update reached the other socket, and processOrder went on
C22_Witness ==
  \E w, v \in Registered(1) :
    /\ w # v
    /\ HasEvent(w, 1, 1) /\ HasEvent(v, 1, 1)
    /\ HasEvent(v, 1, 2) /\ ~HasEvent(w, 1, 2)
    /\ Len(bcast[1]) >= 3

\* C23: broadcastStatus for an order with no registered channel changes
\* nothing, and nothing is buffered: what a socket receives in a step is
\* the update handed over in that very step, so a channel that registers
\* after an update was broadcast never receives it.
C23_NoBufferingNoReplay ==
  [][/\ \A k \in KeyIds :
          (bcast'[k] # bcast[k] /\ Registered(k) = {}) =>
            UNCHANGED <<connections, sockets, subs, restVars>>
     /\ \A w \in Sockets :
          sockets'[w].inbox # sockets[w].inbox =>
            \E k \in KeyIds :
              /\ bcast'[k] # bcast[k]
              /\ sockets'[w].inbox = Append(sockets[w].inbox, Handed(k))]_vars

\* the order's first update met no socket; a socket registered later got
\* the second update and nothing else
C23_Witness ==
  \E k \in KeyIds, w \in Sockets :
    /\ w \in Registered(k)
    /\ Len(bcast[k]) = 2
    /\ \A v \in Sockets : ~HasEvent(v, k, 1)
    /\ sockets[w].inbox = <<[kind |-> "event", orderId |-> k, status |-> "routing", n |-> 2]>>

\* C24: when a channel subscribes to an existing order, the snapshot sent
\* to it carries the status the orders table holds at the moment the
\* channel is registered, however processOrder runs next to it.
C24_SnapshotIsCurrent ==
  [][\A w \in Sockets :
       (/\ subs[w].pc = "got" /\ subs'[w].pc = "done"
        /\ IsSome(subs[w].order)
        /\ sockets'[w].inbox # sockets[w].inbox) =>
         LET m == sockets'[w].inbox[Len(sockets'[w].inbox)]
         IN /\ m.kind = "snapshot"
            /\ IsSome(db[subs[w].orderId])
            /\ m.status = StatusOf(subs[w].orderId)]_vars

C26_OneTerminalFailedEvent ==
  \A w \in Sockets :
    LET box == sockets[w].inbox
        failedAt == {i \in 1..Len(box) : box[i].kind = "event" /\ box[i].status = "failed"}
    IN /\ (/\ w \in Registered(1) /\ sockets[w].readyState = "OPEN"
            /\ Len(box) > 0 /\ box[1].kind = "snapshot" /\ box[1].status = "pending") =>
             Cardinality(failedAt) <= 1
       /\ \A i \in failedAt : \A j \in 1..Len(box) : j > i => box[j].kind # "event"

\* C27: what getQueueMetrics returns has total equal to waiting + active
\* + completed + failed of the same result, whatever the queue holds and
\* however it moves between the four counts.
C27_TotalIsSumOfCounts ==
  IsSome(metrics.result) =>
    LET m == Val(metrics.result)
    IN m.total = m.waiting + m.active + m.completed + m.failed

\* the job was counted as waiting and, picked up in between, as active
\* too; the result after the job has failed for good counts it as failed
C27_Witness ==
  /\ IsSome(metrics.result)
  /\ Val(metrics.result).total = 2
  /\ Val(metrics.result).waiting = 1 /\ Val(metrics.result).active = 1
  /\ JobCount(jobs, "failed") = 1

\* C28: getRecent(limit) returns at most limit orders, sorted by creation
\* time from the most recent to the oldest, and they are the limit most
\* recently created orders of the table: all of them when the table holds
\* fewer, and no order left out is newer than one returned.
C28_RecentOrdersNewestFirst ==
  [][(recent' # recent /\ ~recent'.threw) =>
       LET result == recent'.rows
           returned == {result[i] : i \in 1..Len(result)}
       IN /\ Len(result) <= recent'.limit
          /\ Len(result) = Min(recent'.limit, Cardinality(Rows(db)))
          /\ returned \subseteq Rows(db)
          /\ Cardinality(returned) = Len(result)
          /\ \A i \in 1..Len(result) - 1 :
               result[i].createdAt >= result[i + 1].createdAt
          /\ \A row \in Rows(db) \ returned : \A got \in returned :
               row.createdAt <= got.createdAt]_vars

\* three orders, the two newest created in the same instant; getRecent(2)
\* returned those two
C28_Witness ==
  /\ Cardinality(Rows(db)) = 3
  /\ recent.limit = 2 /\ Len(recent.rows) = 2
  /\ recent.rows[1].createdAt = 2 /\ recent.rows[2].createdAt = 2
  /\ \E row \in Rows(db) : row.createdAt = 1

\* a cache entry is a copy of a version its order's row has had
CopyOfRecord(entry, id) ==
  /\ id \in DOMAIN db /\ IsSome(db[id])
  /\ entry.id = id
  /\ LET version == entry.updatedAt - entry.createdAt + 1
     IN /\ version \in 1..Len(hist[id])
        /\ entry.status = hist[id][version]
  /\ [entry EXCEPT !.status = StatusOf(id), !.updatedAt = Val(db[id]).updatedAt]
       = Val(db[id])

\* C29 as stated: a cache entry is only ever written by getById after a
\* read-miss, with the row it read.
C29_OnlyGetByIdPopulates ==
  [][\A id \in KeyIds :
       (cache'[id] # cache[id] /\ IsSome(cache'[id])) =>
         \E p \in 1..NumReaders :
           /\ rd[p].pc = "setex" /\ rd'[p].pc = "done"
           /\ rd[p].id = id /\ cache'[id] = rd[p].val]_vars

\* C29: a cache entry is only ever written by create, with the row it has
\* just inserted, and by getById after a read-miss, with the row it read;
\* updateStatus writes none and only deletes the entry of its id; so every
\* cache entry is a copy of a version of its order's durable record.
C29_CreateAndGetByIdPopulate ==
  [][/\ \A id \in KeyIds :
          (cache'[id] # cache[id] /\ IsSome(cache'[id])) =>
            \/ \E p \in 1..NumReaders :
                 /\ rd[p].pc = "setex" /\ rd'[p].pc = "done"
                 /\ rd[p].id = id /\ cache'[id] = rd[p].val
            \/ /\ id \in AllIds /\ db[id] = None /\ IsSome(db'[id])
               /\ cache'[id] = db'[id]
               /\ wr' = wr /\ rd' = rd
     /\ wr' # wr => \A id \in KeyIds : cache'[id] = cache[id] \/ (id = wr.id /\ cache'[id] = None)
     /\ \A id \in KeyIds : IsSome(cache[id]) => CopyOfRecord(Val(cache[id]), id)]_vars

\* the entry that create wrote was deleted by an updateStatus, and a
\* getById that missed has written the row it read
C29_Witness ==
  /\ IsSome(cache[1]) /\ cache[1] = db[1]
  /\ hist[1] = <<"pending", "routing">>
  /\ committed[1] = Val(db[1]).updatedAt
  /\ \E p \in 1..NumReaders : rd[p].pc = "done" /\ rd[p].val = cache[1]

\* C30: when an attempt that had got past the routing write fails, the
\* step that hands the failure back to the queue leaves the order's
\* persisted status failed, with the error message and the retry count of
\* the attempt, and has handed the failed event to broadcastStatus; the job
\* waits for its retry, or has failed for good, only from there.
C30_FailureRecordedBeforePropagation ==
  [][\A r \in running :
       (/\ r.pc = "catch" /\ r \notin running'
        /\ IsSome(db[r.orderId])
        /\ StatusOf(r.orderId) \in {"routing", "building", "submitted"}) =>
         /\ jobs'[r.job].state \in {"delayed", "failed"}
         /\ Val(db'[r.orderId]).status = "failed"
         /\ Val(db'[r.orderId]).errorMessage = Some(r.err)
         /\ Val(db'[r.orderId]).retryCount = jobs[r.job].attemptsMade
         /\ bcast'[r.orderId] =
              Append(bcast[r.orderId],
                     [status |-> "failed",
                      willRetry |-> jobs[r.job].attemptsMade < maxRetries])]_vars

\* C31: for an order, the statuses handed to broadcastStatus are, in the
\* same order, the statuses its row has held after pending: each event
\* follows its write and precedes the next write.
C31_EventsFollowPersistedOrder ==
  \A id \in AllIds :
    IsSome(db[id]) => BroadcastStatuses(id) = Tail(hist[id])

\* C32: getBestQuote has started both venue requests before either
\* resolves, and it returns only after both have resolved, with the two
\* quotes that resolved.
C32_BothQuotesAwaited ==
  [][/\ (dex'.raydiumQuote # dex.raydiumQuote \/ dex'.meteoraQuote # dex.meteoraQuote) =>
          dex.started = {"raydium", "meteora"}
     /\ (dex.pc # "done" /\ dex'.pc = "done") =>
          /\ IsSome(dex.raydiumQuote) /\ IsSome(dex.meteoraQuote)
          /\ Val(dex'.quote).raydiumQuote = Val(dex.raydiumQuote)
          /\ Val(dex'.quote).meteoraQuote = Val(dex.meteoraQuote)]_vars

\* getBestQuote started both requests, both resolved, and it has returned
\* the two of them with the Raydium quote as the better one
C32_Witness ==
  /\ dex.pc = "done"
  /\ dex.started = {"raydium", "meteora"}
  /\ Val(dex.quote).bestQuote.dex = "raydium"
  /\ Val(dex.quote).meteoraQuote = Val(dex.meteoraQuote)
  /\ Val(dex.quote).raydiumQuote.estimatedOutput > Val(dex.quote).meteoraQuote.estimatedOutput

\* the persisted quote snapshot of the venue the row names as selected
SelectedSnapshot(row) ==
  IF Val(row.selectedDex) = "raydium" THEN Val(row.raydiumQuote) ELSE Val(row.meteoraQuote)

\* C33: an order whose persisted status is building, submitted or
\* confirmed has a persisted selectedDex and both quote snapshots, each
\* snapshot is its venue's, and neither snapshot has a greater
\* estimatedOutput than the one of the selected venue.
C33_SelectedVenueIsBest ==
  \A id \in AllIds :
    (IsSome(db[id]) /\ Val(db[id]).status \in {"building", "submitted", "confirmed"}) =>
      LET row == Val(db[id])
      IN /\ IsSome(row.selectedDex) /\ IsSome(row.raydiumQuote) /\ IsSome(row.meteoraQuote)
         /\ Val(row.selectedDex) \in {"raydium", "meteora"}
         /\ Val(row.raydiumQuote).dex = "raydium"
         /\ Val(row.meteoraQuote).dex = "meteora"
         /\ SelectedSnapshot(row).estimatedOutput >= Val(row.raydiumQuote).estimatedOutput
         /\ SelectedSnapshot(row).estimatedOutput >= Val(row.meteoraQuote).estimatedOutput

\* a confirmed order routed to Raydium, whose snapshot is strictly the
\* better of the two
C33_Witness ==
  \E id \in AllIds :
    /\ IsSome(db[id]) /\ Val(db[id]).status = "confirmed"
    /\ Val(db[id]).selectedDex = Some("raydium")
    /\ Val(Val(db[id]).raydiumQuote).estimatedOutput >
         Val(Val(db[id]).meteoraQuote).estimatedOutput

\* the row's three settlement fields are those of one executeSwap result
\* for the order, computed with the row's selectedDex
SettledBySwap(id, row) ==
  \E rnd \in SwapDraws, n \in 1..swaps[id] :
    LET swapResult == executeSwap(OrderDetails(row), Val(row.selectedDex), rnd, TxHash(id, n))
    IN /\ row.executedPrice = Some(swapResult.executedPrice)
       /\ row.amountOut = Some(swapResult.amountOut)
       /\ row.txHash = Some(swapResult.txHash)

\* C34: a confirmed order has executedPrice, amountOut and txHash from one
\* executeSwap result computed with its persisted selectedDex; an order
\* that is not confirmed has none of the three set.
C34_SettlementFieldsIffConfirmed ==
  \A id \in AllIds :
    IsSome(db[id]) =>
      LET row == Val(db[id])
      IN IF row.status = "confirmed"
         THEN IsSome(row.selectedDex) /\ SettledBySwap(id, row)
         ELSE row.executedPrice = None /\ row.amountOut = None /\ row.txHash = None

\* C35: executeSwap completes at most once for an order over all of its
\* processing attempts.
C35_SwapAtMostOnce ==
  \A id \in AllIds : swaps[id] <= 1

\* C36: once the order's job has completed, a channel that subscribed to
\* the existing order, was registered and is still open has received a
\* message (the snapshot or an event) with the order's final status; no
\* step of the program is left that could still deliver one.
C36_SubscriberLearnsFinalStatus ==
  \A w \in Sockets, id \in AllIds :
    (/\ \E i \in 1..Len(jobs) : jobs[i].orderId = id /\ jobs[i].state = "completed"
     /\ subs[w].pc = "done" /\ subs[w].orderId = id
     /\ w \in Registered(id)
     /\ sockets[w].readyState = "OPEN") =>
      \E i \in 1..Len(sockets[w].inbox) : sockets[w].inbox[i].status = StatusOf(id)

\* C37: every persisted order has had a job enqueued for its id, so that
\* an executeOrder that replied with a failure has left no order behind.
C37_PersistedOrderHasJob ==
  \A id \in AllIds :
    IsSome(db[id]) => \E i \in 1..Len(jobs) : jobs[i].orderId = id

\* C38: in every step that broadcasts a failed event for an order, the
\* event's willRetry is true exactly when the queue has kept the order's
\* job for another attempt (delayed for its backoff) rather than failed
\* it for good.
C38_WillRetryIffRetried ==
  [][\A id \in AllIds :
       (/\ Len(bcast'[id]) = Len(bcast[id]) + 1
        /\ bcast'[id][Len(bcast'[id])].status = "failed") =>
         (bcast'[id][Len(bcast'[id])].willRetry <=>
            \E i \in 1..Len(jobs') : jobs'[i].orderId = id /\ jobs'[i].state = "delayed")]_vars

\* the optional columns of an order row
PatchFields ==
  {"selectedDex", "raydiumQuote", "meteoraQuote", "executedPrice", "amountOut",
   "txHash", "errorMessage", "retryCount"}

\* the columns no patch names
FixedFields == {"id", "tokenIn", "tokenOut", "amount", "slippage", "createdAt"}

\* C39: a step of updateStatus(id, status, patch) in which the statement
\* ran changes, of order id, the status, updatedAt and (to the patch's
\* value) fields the patch carries, nothing else of that order, and no
\* field of any other order; an order that does not exist stays absent.
C39_UpdateTouchesOnlyPatch ==
  [][\A id \in UpdateIds, status \in UpdateStatuses, patch \in UpdatePatches,
       oc \in {"ok", "post"} :
       updateStatus(id, status, patch, oc) =>
         /\ \A other \in UpdateIds \ {id} : db'[other] = db[other]
         /\ db[id] = None => db'[id] = None
         /\ IsSome(db[id]) =>
              /\ IsSome(db'[id])
              /\ Val(db'[id]).status = status
              /\ \A f \in FixedFields : Val(db'[id])[f] = Val(db[id])[f]
              /\ \A f \in PatchFields \ {"retryCount"} :
                   \/ Val(db'[id])[f] = Val(db[id])[f]
                   \/ IsSome(patch[f]) /\ Val(db'[id])[f] = patch[f]
              /\ \/ Val(db'[id]).retryCount = Val(db[id]).retryCount
                 \/ patch.retryCount = Some(Val(db'[id]).retryCount)]_vars

\* an order that failed once and was confirmed afterwards still holds the
\* errorMessage and retryCount of the failed attempt, next to another
\* order that no write has touched
C39_Witness ==
  \E id \in UpdateIds, other \in UpdateIds :
    /\ id # other
    /\ IsSome(db[id]) /\ Val(db[id]).status = "confirmed"
    /\ hist[id] = <<"pending", "failed", "confirmed">>
    /\ Val(db[id]).errorMessage = Some("storage failure")
    /\ Val(db[id]).retryCount = 1
    /\ Val(db[id]).txHash = Some("tx1-1")
    /\ IsSome(db[other]) /\ hist[other] = <<"pending">>

\* C40: the step of subscribeToOrder that finds no order leaves the
\* registry as it was and the socket closing, having sent it the 'Order
\* not found' message if the socket was open and the send did not raise;
\* and a socket whose subscription has ended without its being
\* registered receives nothing afterwards, whatever is broadcast.
C40_AbsentOrderNeverRegisters ==
  [][\A w \in Sockets :
       /\ (subs[w].pc = "got" /\ subs'[w].pc = "done" /\ subs[w].order = None) =>
            /\ connections' = connections
            /\ \A k \in KeyIds : w \notin Registered(k)
            /\ sockets'[w].readyState # "OPEN"
            /\ sockets'[w].inbox =
                 IF sockets[w].readyState = "OPEN" /\ ~sockets[w].sendThrows
                 THEN Append(sockets[w].inbox, NotFoundMessage(subs[w].orderId))
                 ELSE sockets[w].inbox
       /\ (subs[w].pc = "done" /\ \A k \in KeyIds : w \notin Registered(k)) =>
            sockets'[w].inbox = sockets[w].inbox]_vars

\* a job for the absent order has broadcast failed twice; a socket that
\* subscribed to that order holds the 'Order not found' message alone, is
\* closing, and the registry is empty
C40_Witness ==
  \E w \in Sockets, k \in AllIds :
    /\ db[k] = None
    /\ Len(bcast[k]) >= 2
    /\ subs[w].pc = "done" /\ subs[w].orderId = k
    /\ sockets[w].inbox = <<NotFoundMessage(k)>>
    /\ sockets[w].readyState = "CLOSING"
    /\ connections = EmptyMap

TypeOK ==
  /\ \A id \in AllIds : db[id] # None => Val(db[id]).status \in Statuses
  /\ \A i \in 1..Len(jobs) : jobs[i].state \in {"waiting", "active", "delayed", "completed", "failed"}

====
